---- MODULE Spec2Model ----
(***************************************************************************)
(* Model of src/nist_ml/nist_scraper.py: the NISTScraper class.            *)
(*                                                                         *)
(* Strings are modelled as sequences of tokens (a token is a substring the *)
(* code searches for, splits on or replaces, or an opaque piece of text),  *)
(* a page as a sequence of lines.  Coroutines are modelled by a program    *)
(* counter: the entry point's (pc) and one per task handed to gather (tpc).*)
(***************************************************************************)
EXTENDS Integers, Sequences, FiniteSets, TLC

\* ------------------------------------------------------------------ bounds
MaxK == 2          \* largest max_concurrent_requests explored
MaxBatch == 3      \* largest set of hrefs handed to a collect_* batch
MaxLines == 3      \* longest detail page explored line by line
MaxIndexLines == 3 \* longest index page handed to one call of _fetch_index_hrefs

\* --------------------------------------------------------------- constants
MaxIterations == 100             \* the literal of `if iteration > 100`
default_start_href == "/cgi/formula/"

GroupLinks == {"/cgi/g1", "/cgi/g2"}
IndexLinks == {default_start_href} \cup GroupLinks
LeafLinks == {"/cgi/fa", "/cgi/fb", "/cgi/fc", "/cgi/fd"}
AllLinks == IndexLinks \cup LeafLinks

\* What session.get / raise_for_status / response.text raise (fetch_html):
\* a transport error, an HTTP error status, the timeout.
FetchErrors == {"ClientError", "ClientResponseError", "TimeoutError"}
\* What the scan of a detail page raises.
ScanErrors == {"IndexError", "ValueError"}

VARIABLES
    max_concurrent_requests, \* self.max_concurrent_requests
    semaphore,               \* self.semaphore: the permits left
    entry,                   \* the entry point that was called
    hrefs,                   \* its hrefs argument (the batch entry points)
    web,                     \* the site: link -> page (sequence of lines)
    pc,                      \* position of the entry point coroutine
    tpc,                     \* link -> position of the task gathered for it
    tres,                    \* link -> value the task returned
    formula_hrefs, groups_to_search, failed_hrefs, iteration, seen_groups,
    warned,                  \* the "Unable to fetch ..." logger.error was emitted
    returned,                \* the value the entry point returned
    html_lines, line_no, chemical_metadata, \* lines, i, chemical_metadata of _fetch_chemical_metadata
    fetch_failed             \* history: the links whose fetch failed, recorded when the
                             \* task ends (batches) or when its round is merged (crawl)

vars == <<max_concurrent_requests, semaphore, entry, hrefs, web, pc, tpc, tres,
          formula_hrefs, groups_to_search, failed_hrefs, iteration, seen_groups,
          warned, returned, html_lines, line_no, chemical_metadata, fetch_failed>>

\* ----------------------------------------------------------- string helpers
Range(s) == {s[i] : i \in 1..Len(s)}

\* The position of the first occurrence of token t in s, 0 if there is none.
IndexOf(s, t) ==
    IF t \in Range(s) THEN CHOOSE i \in 1..Len(s) : s[i] = t /\ \A j \in 1..(i-1) : s[j] # t
    ELSE 0

\* str.split(sep): the pieces between the occurrences of the token sep.
RECURSIVE Split(_, _)
Split(s, sep) ==
    LET i == IndexOf(s, sep) IN
    IF i = 0 THEN <<s>>
    ELSE <<SubSeq(s, 1, i-1)>> \o Split(SubSeq(s, i+1, Len(s)), sep)

\* ------------------------------------------------------------- index pages
Quote == "\""
LiAnchor == "<li><a href="

\* A line of an index page: <li><a href="H">TEXT</a>
IndexLine(h, text) == <<LiAnchor, Quote, h, Quote, ">", text, "</a>">>
OtherLine == <<"<p>", "text", "</p>">>

\* line.startswith('<li><a href="/cgi/') : every link of the model begins /cgi/
StartsWithLiCgi(line) ==
    Len(line) >= 3 /\ line[1] = LiAnchor /\ line[2] = Quote /\ line[3] \in AllLinks

\* lines 55-64 of _fetch_index_hrefs: the scan of one page
RECURSIVE ScanIndex(_, _, _)
ScanIndex(lines, formula, group) ==
    IF lines = <<>> THEN [formula |-> formula, group |-> group, failed |-> {}]
    ELSE LET line == Head(lines) IN
         IF StartsWithLiCgi(line)
         THEN LET sub_href == Split(line, Quote)[2][1] IN
              IF "species" \in Range(line)
              THEN ScanIndex(Tail(lines), formula, group \cup {sub_href})
              ELSE ScanIndex(Tail(lines), formula \cup {sub_href}, group)
         ELSE ScanIndex(Tail(lines), formula, group)

\* (an except branch that hands the link back as a group as well)
IndexFailureAsGroup(href) == [formula |-> {}, group |-> {href}, failed |-> {href}]

\* lines 65-67: the except branch
IndexFailure(href) == [formula |-> {}, group |-> {}, failed |-> {href}]

\* The pages the site may serve for an index link.
LeafLines(p) ==
    IF p = default_start_href
    THEN <<IndexLine("/cgi/fa", "C"), IndexLine("/cgi/fb", "H")>>
    ELSE IF p = "/cgi/g1" THEN <<IndexLine("/cgi/fc", "CH4")>>
    ELSE <<IndexLine("/cgi/fd", "C2H6"), IndexLine("/cgi/fa", "C")>>

GroupLines(gs) ==
    (IF "/cgi/g1" \in gs THEN <<IndexLine("/cgi/g1", "species")>> ELSE <<>>)
    \o (IF "/cgi/g2" \in gs THEN <<IndexLine("/cgi/g2", "species")>> ELSE <<>>)

IndexPage(p, gs) == <<OtherLine>> \o LeafLines(p) \o GroupLines(gs)

Webs == {[p \in IndexLinks |-> IndexPage(p, g[p])] : g \in [IndexLinks -> SUBSET GroupLinks]}

\* ------------------------------------------------------------ detail pages
\* Optional values: None is the empty tuple, a value v is <<v>>.
None == <<>>
Some(v) == <<v>>

Apostrophe == "'"
StrongEnd == "</strong> "
InchiText == "\"inchi-text\">"
TitleOpen == "<title>"
TitleClose == "</title>"
LiClose == "</li>"
SpanClose == "</span>"
FormulaMarker == " title=\"IUPAC definition of empirical formula\""
WeightMarker == " title=\"IUPAC definition of relative molecular mass (molecular weight)\""
InchiMarker == "<strong>IUPAC Standard InChI:</strong>"
InchiKeyMarker == "<strong>IUPAC Standard InChIKey:</strong>"
CasText == "CAS Registry Number"
IndexEq == "Index="
LargeOn == "&amp;Large=on"
TypeIR == "&amp;Type=IR"
DashSpec == "-SPEC"
HashIR == "#IR"

\* str.removeprefix / str.removesuffix for a one-token affix
RemovePrefix(s, t) == IF Len(s) > 0 /\ s[1] = t THEN Tail(s) ELSE s
RemoveSuffix(s, t) == IF Len(s) > 0 /\ s[Len(s)] = t THEN SubSeq(s, 1, Len(s) - 1) ELSE s

\* s begins with the token sequence old
HasPrefix(s, old) == Len(s) >= Len(old) /\ SubSeq(s, 1, Len(old)) = old

\* str.replace(old, new): every non-overlapping occurrence, left to right
RECURSIVE Replace(_, _, _)
Replace(s, old, new) ==
    IF s = <<>> THEN <<>>
    ELSE IF HasPrefix(s, old) THEN new \o Replace(SubSeq(s, Len(old) + 1, Len(s)), old, new)
    ELSE <<Head(s)>> \o Replace(Tail(s), old, new)

\* float(text): the texts that parse, with their value in hundredths
FloatTexts == {<<"78.11">>, <<"16.04">>}
FloatOf(text) == IF text = <<"78.11">> THEN 7811 ELSE 1604

\* lines 212-223: the normalisation of one spectrum reference
NormalizeJcamp(href) ==
    LET a == Split(href, LargeOn)[1]
        b == Replace(a, <<"Spec=">>, <<"JCAMP=">>)
        c == Replace(b, <<"ID=">>, <<"JCAMP=">>)
        d == Replace(c, <<TypeIR, DashSpec>>, <<>>)
        e == Replace(d, <<TypeIR>>, <<>>)
        f == Replace(e, <<HashIR, DashSpec>>, <<>>)
    IN  f \o <<TypeIR>>

\* (appending without the membership test)
AppendJcampAlways(jcamp_hrefs, h) == Append(jcamp_hrefs, h)

\* lines 224-225
AppendJcamp(jcamp_hrefs, h) == IF h \in Range(jcamp_hrefs) THEN jcamp_hrefs ELSE Append(jcamp_hrefs, h)

\* line 168: ChemicalMetadata(href=href)
NewMetadata(href) ==
    [href |-> Some(href), name |-> None, formula |-> None, weight |-> None,
     inchi |-> None, inchi_key |-> None, cas |-> None, jcamp_hrefs |-> <<>>]

Ok(md) == [raised |-> "", md |-> md]
Raise(e, md) == [raised |-> e, md |-> md]

\* lines[i + 1].split(sep)[1].removesuffix(suffix), or the IndexError it raises
NextValue(lines, i, sep, suffix) ==
    IF i + 1 > Len(lines) THEN Raise("IndexError", None)
    ELSE LET parts == Split(lines[i + 1], sep) IN
         IF Len(parts) < 2 THEN Raise("IndexError", None)
         ELSE Ok(RemoveSuffix(parts[2], suffix))

\* lines 172-225: the body of the loop for line i (1-based) of the page
ScanDetailLine(md, lines, i) ==
    LET line == lines[i] IN
    IF Len(line) > 0 /\ line[1] = TitleOpen
    THEN Ok([md EXCEPT !.name = Some(RemoveSuffix(RemovePrefix(line, TitleOpen), TitleClose))])
    ELSE IF line = <<FormulaMarker>>
    THEN LET v == NextValue(lines, i, StrongEnd, LiClose) IN
         IF v.raised # "" THEN Raise(v.raised, md)
         ELSE Ok([md EXCEPT !.formula = Some(v.md)])
    ELSE IF line = <<WeightMarker>>
    THEN LET v == NextValue(lines, i, StrongEnd, LiClose) IN
         IF v.raised # "" THEN Raise(v.raised, md)
         ELSE IF v.md \notin FloatTexts THEN Raise("ValueError", md)
         ELSE Ok([md EXCEPT !.weight = Some(FloatOf(v.md))])
    ELSE IF line = <<InchiMarker>>
    THEN LET v == NextValue(lines, i, InchiText, SpanClose) IN
         IF v.raised # "" THEN Raise(v.raised, md)
         ELSE Ok([md EXCEPT !.inchi = Some(v.md)])
    ELSE IF line = <<InchiKeyMarker>>
    THEN LET v == NextValue(lines, i, InchiText, SpanClose) IN
         IF v.raised # "" THEN Raise(v.raised, md)
         ELSE Ok([md EXCEPT !.inchi_key = Some(v.md)])
    ELSE IF CasText \in Range(line)
    THEN LET parts == Split(line, StrongEnd) IN
         IF Len(parts) < 2 THEN Raise("IndexError", md)
         ELSE Ok([md EXCEPT !.cas = Some(RemoveSuffix(parts[2], LiClose))])
    ELSE IF IndexEq \in Range(line)
    THEN IF Apostrophe \in Range(line)
         THEN Ok([md EXCEPT !.jcamp_hrefs =
                     AppendJcamp(@, NormalizeJcamp(Split(line, Apostrophe)[2]))])
         ELSE IF Quote \in Range(line)
         THEN Ok([md EXCEPT !.jcamp_hrefs =
                     AppendJcamp(@, NormalizeJcamp(Split(line, Quote)[2]))])
         ELSE Ok(md)
    ELSE Ok(md)

\* lines 171-226: the whole loop, from line i on
RECURSIVE ScanDetail(_, _, _)
ScanDetail(md, lines, i) ==
    IF i > Len(lines) THEN Ok(md)
    ELSE LET r == ScanDetailLine(md, lines, i) IN
         IF r.raised # "" THEN r ELSE ScanDetail(r.md, lines, i + 1)

\* The lines a detail page of the model is made of.
TitleLine == <<TitleOpen, "Benzene", TitleClose>>
StrongText == <<"<li><strong>", "label", StrongEnd, "C6H6", LiClose>>
StrongNumber == <<"<li><strong>", "label", StrongEnd, "78.11", LiClose>>
InchiLine == <<"<span class=", InchiText, "InChI=1S/C6H6", SpanClose>>
CasLine == <<"<li><strong>", CasText, ":", StrongEnd, "71-43-2", LiClose>>
CasBare == <<"<li>", CasText, "71-43-2", LiClose>>
IndexA == <<"<a href=", Quote, "/cgi/cbook.cgi?", "ID=", "C71432", TypeIR, DashSpec,
            "&amp;", IndexEq, "0", HashIR, DashSpec, Quote, ">">>
IndexB == <<"<a href=", Apostrophe, "/cgi/cbook.cgi?", "Spec=", "C71432", "&amp;", IndexEq, "0",
            LargeOn, Apostrophe, " title=", Quote, "large", Quote, ">">>
IndexC == <<"<a href=", Quote, "/cgi/cbook.cgi?", "ID=", "C71432", "&amp;", IndexEq, "1",
            TypeIR, Quote, ">">>
IndexBare == <<"<!-- ", IndexEq, "0", " -->">>

DetailLines ==
    {TitleLine, <<FormulaMarker>>, <<WeightMarker>>, <<InchiMarker>>, <<InchiKeyMarker>>,
     StrongText, StrongNumber, InchiLine, CasLine, CasBare, OtherLine,
     IndexA, IndexB, IndexC, IndexBare}


\* Every page of at most n lines
RECURSIVE PagesUpTo(_)
PagesUpTo(n) ==
    IF n = 0 THEN {<<>>}
    ELSE LET shorter == PagesUpTo(n - 1) IN
         shorter \cup {Append(p, l) : p \in shorter, l \in DetailLines}

\* --------------------------------------------------------- spectrum anchor
IRAnchor == <<"<a href=", Quote, "/cgi/cbook.cgi?ID=C71432&amp;Type=IR", Quote, ">",
              "IR Spectrum", "</a>">>

\* str.join of the lines: the text the regular expression is searched in
RECURSIVE Flatten(_)
Flatten(ls) == IF ls = <<>> THEN <<>> ELSE Head(ls) \o <<"\n">> \o Flatten(Tail(ls))

\* re.match of <a href="([^"]+)">IR Spectrum</a> at position k of the text
AnchorAt(s, k) ==
    /\ k + 1 <= Len(s) /\ s[k] = "<a href=" /\ s[k + 1] = Quote
    /\ LET j == IndexOf(SubSeq(s, k + 2, Len(s)), Quote) IN
       /\ j > 1
       /\ k + 1 + j + 3 <= Len(s)
       /\ SubSeq(s, k + 1 + j + 1, k + 1 + j + 3) = <<">", "IR Spectrum", "</a>">>

\* lines 126-129: re.search, then match.group(1); None without a match
SearchSpectrum(ls) ==
    LET s == Flatten(ls)
        hits == {k \in 1..Len(s) : AnchorAt(s, k)}
    IN  IF hits = {} THEN None
        ELSE LET k == CHOOSE h \in hits : \A g \in hits : h <= g
                 j == IndexOf(SubSeq(s, k + 2, Len(s)), Quote)
             IN  Some(SubSeq(s, k + 2, k + j))

\* The detail pages the batches are run on.
GoodPage == <<TitleLine, <<FormulaMarker>>, StrongText, <<WeightMarker>>, StrongNumber,
              CasLine, IRAnchor, IndexA, IndexB>>
BadWeightPage == <<TitleLine, <<WeightMarker>>, StrongText, IRAnchor>>
TruncatedPage == <<TitleLine, IndexC, <<FormulaMarker>>>>
SamplePages == {GoodPage, BadWeightPage, TruncatedPage}

\* The order in which a set is iterated (arbitrary, fixed for a given set)
RECURSIVE SetToSeq(_)
SetToSeq(S) ==
    IF S = {} THEN <<>>
    ELSE LET x == CHOOSE y \in S : TRUE IN <<x>> \o SetToSeq(S \ {x})

\* -------------------------------------------------------------- the gate
\* (the gate letting one caller too many through)
CanAcquireOffByOne == semaphore >= 0

\* (a gate that keeps one permit back)
CanAcquireStrict == semaphore > 1

\* asyncio.Semaphore.acquire proceeds only while a permit is left
CanAcquire == semaphore > 0

\* (an exit of the with block that keeps the permit)
ReleaseLeak(permits) == permits

\* asyncio.Semaphore.release, run by __aexit__ on every exit of the with block
Release(permits) == permits + 1

InFlight == {l \in AllLinks : tpc[l] \in {"fetching", "scanning"}}
Tasks == {l \in AllLinks : tpc[l] # "none"}

\* (an except clause for aiohttp.ClientError only: the timeout escapes)
CaughtClientErrorOnly(e) == e \in {"ClientError", "ClientResponseError"} \cup ScanErrors

\* `except Exception` of the three per-page coroutines
Caught(e) == e \in FetchErrors \cup ScanErrors

\* the entry points whose per-page coroutine is _fetch_index_hrefs
IndexEntries == {"collect_all_formula_hrefs", "_fetch_index_hrefs"}

\* What a task holds before it has returned: the empty value of what its
\* coroutine returns (tpc tells whether the task has returned).
NoResult ==
    IF entry \in IndexEntries THEN [formula |-> {}, group |-> {}, failed |-> {}]
    ELSE None
\* What the entry point holds before it has returned (pc tells whether it has).
NotReturned == IF entry = "collect_chemical_metadata" THEN <<>> ELSE {}
NoTasks == [l \in AllLinks |-> "none"]
NoResults == [l \in AllLinks |-> NoResult]

\* ------------------------------------------------------------------- Init
InitCommon ==
    /\ semaphore = max_concurrent_requests
    /\ tres = NoResults
    /\ formula_hrefs = {}
    /\ groups_to_search = {}
    /\ failed_hrefs = {}
    /\ iteration = 0
    /\ seen_groups = {}
    /\ warned = FALSE
    /\ returned = NotReturned
    /\ html_lines = <<>>
    /\ line_no = 0
    /\ chemical_metadata = None
    /\ fetch_failed = {}

InitCrawl ==
    /\ entry = "collect_all_formula_hrefs"
    /\ hrefs = {}
    /\ web \in Webs
    /\ pc = "seed"
    /\ tpc = [l \in AllLinks |-> IF l = default_start_href THEN "waiting" ELSE "none"]

InitBatch ==
    /\ entry \in {"collect_chemical_metadata", "collect_spectrum_hrefs_by_label"}
    /\ hrefs \in {h \in SUBSET LeafLinks : Cardinality(h) <= MaxBatch}
    /\ web \in [hrefs -> SamplePages]
    /\ pc = "gather"
    /\ tpc = [l \in AllLinks |-> IF l \in hrefs THEN "waiting" ELSE "none"]

Init ==
    /\ max_concurrent_requests \in 1..MaxK
    /\ (InitCrawl \/ InitBatch)
    /\ InitCommon

\* ---------------------------------------------------------- per-page tasks
crawlVars == <<formula_hrefs, groups_to_search, failed_hrefs, iteration, seen_groups, warned>>
scanVars == <<html_lines, line_no, chemical_metadata>>
fixedVars == <<max_concurrent_requests, entry, hrefs, web>>

\* What the coroutine does with exception e: the value of its except branch,
\* or the exception itself when the branch does not catch it.
Settle(l, e, value) ==
    /\ tpc' = [tpc EXCEPT ![l] = IF Caught(e) THEN "done" ELSE "raised"]
    /\ tres' = [tres EXCEPT ![l] = IF Caught(e) THEN value ELSE NoResult]

\* async with self.semaphore: __aenter__
Acquire(l) ==
    /\ tpc[l] = "waiting"
    /\ CanAcquire
    /\ semaphore' = semaphore - 1
    /\ tpc' = [tpc EXCEPT ![l] = "fetching"]
    /\ UNCHANGED <<fixedVars, pc, tres, crawlVars, returned, scanVars, fetch_failed>>

\* _fetch_index_hrefs: fetch_html returned the page; the scan ran; __aexit__
IndexFetched(l) ==
    /\ entry \in IndexEntries
    /\ tpc[l] = "fetching"
    /\ semaphore' = Release(semaphore)
    /\ tpc' = [tpc EXCEPT ![l] = "done"]
    /\ tres' = [tres EXCEPT ![l] = ScanIndex(web[l], {}, {})]
    /\ UNCHANGED <<fixedVars, pc, crawlVars, returned, scanVars, fetch_failed>>

\* _fetch_index_hrefs: fetch_html raised e; __aexit__; the except branch
IndexFailed(l) ==
    /\ entry \in IndexEntries
    /\ tpc[l] = "fetching"
    /\ \E e \in FetchErrors : Settle(l, e, IndexFailure(l))
    /\ semaphore' = Release(semaphore)
    /\ fetch_failed' = IF entry = "_fetch_index_hrefs" THEN fetch_failed \cup {l}
                       ELSE fetch_failed
    /\ UNCHANGED <<fixedVars, pc, crawlVars, returned, scanVars>>

\* _fetch_chemical_metadata: the page was fetched and scanned to its end or
\* to the line that raised; __aexit__; return or the except branch
MetadataFetched(l) ==
    /\ entry = "collect_chemical_metadata"
    /\ tpc[l] = "fetching"
    /\ LET r == ScanDetail(NewMetadata(l), web[l], 1) IN
       IF r.raised = ""
       THEN /\ tpc' = [tpc EXCEPT ![l] = "done"]
            /\ tres' = [tres EXCEPT ![l] = Some(r.md)]
       ELSE Settle(l, r.raised, None)
    /\ semaphore' = Release(semaphore)
    /\ UNCHANGED <<fixedVars, pc, crawlVars, returned, scanVars, fetch_failed>>

\* _fetch_chemical_metadata: fetch_html raised e
MetadataFailed(l) ==
    /\ entry = "collect_chemical_metadata"
    /\ tpc[l] = "fetching"
    /\ \E e \in FetchErrors : Settle(l, e, None)
    /\ semaphore' = Release(semaphore)
    /\ fetch_failed' = fetch_failed \cup {l}
    /\ UNCHANGED <<fixedVars, pc, crawlVars, returned, scanVars>>

\* _fetch_spectrum_href_by_label: the page was fetched and searched
SpectrumFetched(l) ==
    /\ entry = "collect_spectrum_hrefs_by_label"
    /\ tpc[l] = "fetching"
    /\ tpc' = [tpc EXCEPT ![l] = "done"]
    /\ tres' = [tres EXCEPT ![l] = SearchSpectrum(web[l])]
    /\ semaphore' = Release(semaphore)
    /\ UNCHANGED <<fixedVars, pc, crawlVars, returned, scanVars, fetch_failed>>

\* _fetch_spectrum_href_by_label: fetch_html raised e
SpectrumFailed(l) ==
    /\ entry = "collect_spectrum_hrefs_by_label"
    /\ tpc[l] = "fetching"
    /\ \E e \in FetchErrors : Settle(l, e, None)
    /\ semaphore' = Release(semaphore)
    /\ fetch_failed' = fetch_failed \cup {l}
    /\ UNCHANGED <<fixedVars, pc, crawlVars, returned, scanVars>>

\* ------------------------------------------------ collect_all_formula_hrefs
\* (a gather that returns as soon as one task has finished)
AllSettledFirst == \E l \in Tasks : tpc[l] \in {"done", "raised"}

\* asyncio.gather returns once every task has finished; it re-raises the
\* exception of a task that raised
AllSettled == \A l \in Tasks : tpc[l] \in {"done", "raised"}
Raised == \E l \in Tasks : tpc[l] = "raised"
\* the tasks of the round that returned their own link as failed
FailedTasks == {l \in Tasks : tpc[l] = "done" /\ tres[l].failed # {}}
\* (outputs that keep the return value of a single task, the others being
\* overwritten)
FinishedOne ==
    IF \E l \in Tasks : tpc[l] = "done"
    THEN {CHOOSE l \in Tasks : tpc[l] = "done"}
    ELSE {}

\* the tasks whose return values make up the outputs of gather
Finished == {l \in Tasks : tpc[l] = "done"}

\* (assigning the leaves of the round instead of adding them)
UpdateReplacing(old, new) == new

\* line 103: set.update
Update(old, new) == old \cup new

\* (settling every link of the round, the failed ones too)
SettledAll(seen, groups, failed) == seen \cup groups

\* line 105
Settled(seen, groups, failed) == seen \cup (groups \ failed)

\* (a next round of the newly discovered groups only: failed links dropped)
NextGroupsNewOnly(new_groups, failed, seen) == new_groups

\* line 106: groups_to_search = new_groups_to_search | failed_hrefs - seen_groups
\* (in Python `-` binds tighter than `|`)
NextGroups(new_groups, failed, seen) == new_groups \cup (failed \ seen)

\* line 108
CeilingHit(n) == n > MaxIterations

\* lines 75-82: the seed's classification is unpacked
SeedDone ==
    /\ pc = "seed"
    /\ AllSettled
    /\ IF Raised
       THEN /\ pc' = "raised"
            /\ UNCHANGED <<formula_hrefs, groups_to_search, failed_hrefs>>
       ELSE /\ pc' = "loop"
            /\ formula_hrefs' = tres[default_start_href].formula
            /\ groups_to_search' = tres[default_start_href].group
            /\ failed_hrefs' = tres[default_start_href].failed
    /\ iteration' = 0
    /\ seen_groups' = {}
    /\ tpc' = NoTasks
    /\ tres' = NoResults
    /\ fetch_failed' = fetch_failed \cup FailedTasks
    /\ UNCHANGED <<fixedVars, semaphore, warned, returned, scanVars>>

\* lines 84-96: the loop condition holds; one task per pending group
LoopEnter ==
    /\ pc = "loop"
    /\ groups_to_search # {}
    /\ iteration' = iteration + 1
    /\ tpc' = [l \in AllLinks |-> IF l \in groups_to_search THEN "waiting" ELSE "none"]
    /\ pc' = "gather"
    /\ UNCHANGED <<fixedVars, semaphore, tres, formula_hrefs, groups_to_search,
                   failed_hrefs, seen_groups, warned, returned, scanVars, fetch_failed>>

\* lines 84, 115: the loop condition fails; return formula_hrefs
LoopExit ==
    /\ pc = "loop"
    /\ groups_to_search = {}
    /\ pc' = "done"
    /\ returned' = formula_hrefs
    /\ UNCHANGED <<fixedVars, semaphore, tpc, tres, crawlVars, scanVars, fetch_failed>>

\* lines 96-115: gather returned; merge, settle, advance, ceiling
Merge ==
    /\ entry = "collect_all_formula_hrefs"
    /\ pc = "gather"
    /\ AllSettled
    /\ IF Raised
       THEN /\ pc' = "raised"
            /\ UNCHANGED <<formula_hrefs, groups_to_search, failed_hrefs, seen_groups,
                           warned, returned>>
       ELSE LET new_formula_hrefs == UNION {tres[l].formula : l \in Finished}
                new_groups_to_search == UNION {tres[l].group : l \in Finished}
                failed == UNION {tres[l].failed : l \in Finished}
                seen == Settled(seen_groups, groups_to_search, failed)
            IN  /\ failed_hrefs' = failed
                /\ formula_hrefs' = Update(formula_hrefs, new_formula_hrefs)
                /\ seen_groups' = seen
                /\ groups_to_search' = NextGroups(new_groups_to_search, failed, seen)
                /\ IF CeilingHit(iteration)
                   THEN /\ warned' = TRUE
                        /\ pc' = "done"
                        /\ returned' = formula_hrefs'
                   ELSE /\ pc' = "loop"
                        /\ UNCHANGED <<warned, returned>>
    /\ tpc' = NoTasks
    /\ tres' = NoResults
    /\ fetch_failed' = fetch_failed \cup FailedTasks
    /\ UNCHANGED <<fixedVars, semaphore, iteration, scanVars>>

\* ------------------------------------------------------- the batch runners
\* (a collection that stops at the first task that returned None)
RECURSIVE KeepRecordsUntilNone(_)
KeepRecordsUntilNone(order) ==
    IF order = <<>> \/ tres[Head(order)] = None THEN <<>>
    ELSE <<tres[Head(order)][1]>> \o KeepRecordsUntilNone(Tail(order))

\* line 157: [m for m in all_results if m], in the order of the tasks
RECURSIVE KeepRecords(_)
KeepRecords(order) ==
    IF order = <<>> THEN <<>>
    ELSE (IF tres[Head(order)] # None THEN <<tres[Head(order)][1]>> ELSE <<>>)
         \o KeepRecords(Tail(order))

\* lines 156-158 of collect_chemical_metadata
MetadataGathered ==
    /\ entry = "collect_chemical_metadata"
    /\ pc = "gather"
    /\ AllSettled
    /\ IF Raised
       THEN pc' = "raised" /\ UNCHANGED returned
       ELSE pc' = "done" /\ returned' = KeepRecords(SetToSeq(hrefs))
    /\ UNCHANGED <<fixedVars, semaphore, tpc, tres, crawlVars, scanVars, fetch_failed>>

\* lines 143-145 of collect_spectrum_hrefs_by_label: {r for r in all_results if r}
SpectrumGathered ==
    /\ entry = "collect_spectrum_hrefs_by_label"
    /\ pc = "gather"
    /\ AllSettled
    /\ IF Raised
       THEN pc' = "raised" /\ UNCHANGED returned
       ELSE pc' = "done" /\ returned' = {tres[l][1] : l \in {h \in hrefs : tres[h] # None}}
    /\ UNCHANGED <<fixedVars, semaphore, tpc, tres, crawlVars, scanVars, fetch_failed>>

Next ==
    \/ \E l \in AllLinks : Acquire(l)
    \/ \E l \in AllLinks : IndexFetched(l)
    \/ \E l \in AllLinks : IndexFailed(l)
    \/ \E l \in AllLinks : MetadataFetched(l)
    \/ \E l \in AllLinks : MetadataFailed(l)
    \/ \E l \in AllLinks : SpectrumFetched(l)
    \/ \E l \in AllLinks : SpectrumFailed(l)
    \/ SeedDone
    \/ LoopEnter
    \/ LoopExit
    \/ Merge
    \/ MetadataGathered
    \/ SpectrumGathered

Spec == Init /\ [][Next]_vars

\* --------------------------------- _fetch_chemical_metadata, line by line
\* line 169: fetch_html returned; line 170: html.splitlines()
DetailFetched(l) ==
    /\ entry = "_fetch_chemical_metadata"
    /\ tpc[l] = "fetching"
    /\ tpc' = [tpc EXCEPT ![l] = "scanning"]
    /\ html_lines' = web[l]
    /\ line_no' = 1
    /\ chemical_metadata' = NewMetadata(l)
    /\ UNCHANGED <<fixedVars, semaphore, pc, tres, crawlVars, returned, fetch_failed>>

\* line 169: fetch_html raised e; lines 228-230
DetailFetchFailed(l) ==
    /\ entry = "_fetch_chemical_metadata"
    /\ tpc[l] = "fetching"
    /\ \E e \in FetchErrors : Settle(l, e, None)
    /\ semaphore' = Release(semaphore)
    /\ fetch_failed' = fetch_failed \cup {l}
    /\ UNCHANGED <<fixedVars, pc, crawlVars, returned, scanVars>>

\* lines 171-225: one turn of the loop; an exception ends in lines 228-230
DetailScanLine(l) ==
    /\ tpc[l] = "scanning"
    /\ line_no <= Len(html_lines)
    /\ LET r == ScanDetailLine(chemical_metadata, html_lines, line_no) IN
       IF r.raised = ""
       THEN /\ chemical_metadata' = r.md
            /\ line_no' = line_no + 1
            /\ UNCHANGED <<semaphore, tpc, tres>>
       ELSE /\ Settle(l, r.raised, None)
            /\ semaphore' = Release(semaphore)
            /\ UNCHANGED <<chemical_metadata, line_no>>
    /\ UNCHANGED <<fixedVars, pc, crawlVars, returned, html_lines, fetch_failed>>

\* line 226: return chemical_metadata
DetailReturn(l) ==
    /\ tpc[l] = "scanning"
    /\ line_no > Len(html_lines)
    /\ tpc' = [tpc EXCEPT ![l] = "done"]
    /\ tres' = [tres EXCEPT ![l] = Some(chemical_metadata)]
    /\ semaphore' = Release(semaphore)
    /\ UNCHANGED <<fixedVars, pc, crawlVars, returned, scanVars, fetch_failed>>

DetailHref == "/cgi/fa"

InitDetail ==
    /\ max_concurrent_requests = MaxK
    /\ entry = "_fetch_chemical_metadata"
    /\ hrefs = {DetailHref}
    /\ web \in [hrefs -> PagesUpTo(MaxLines)]
    /\ pc = "call"
    /\ tpc = [l \in AllLinks |-> IF l \in hrefs THEN "waiting" ELSE "none"]
    /\ InitCommon

NextDetail ==
    \/ \E l \in AllLinks : Acquire(l)
    \/ \E l \in AllLinks : DetailFetched(l)
    \/ \E l \in AllLinks : DetailFetchFailed(l)
    \/ \E l \in AllLinks : DetailScanLine(l)
    \/ \E l \in AllLinks : DetailReturn(l)

SpecDetail == InitDetail /\ [][NextDetail]_vars

\* --------------------------------------------------- the event loop's runs
\* The site of the crawl under fairness: the seed lists both groups, so that
\* a round of two tasks meets a gate of one permit.
FanOutWeb ==
    [p \in IndexLinks |-> IndexPage(p, IF p = default_start_href THEN GroupLinks ELSE {})]

\* The batches under fairness: more links than permits; a page whose scan
\* returns and a page whose scan raises.
FairPages == {GoodPage, BadWeightPage}

InitFair ==
    /\ max_concurrent_requests \in 1..MaxK
    /\ \/ (InitCrawl /\ web = FanOutWeb)
       \/ (/\ InitBatch
           /\ Cardinality(hrefs) > max_concurrent_requests
           /\ \A h \in hrefs : web[h] \in FairPages)
    /\ InitCommon

\* a task waiting for the semaphore is woken when a permit is free
SomeAcquire == \E l \in AllLinks : Acquire(l)

\* fetch_html of a task ends, by its result, its error or its timeout
\* (session.get has timeout=10), and the task with it: the step that any of
\* IndexFetched, IndexFailed, MetadataFetched, MetadataFailed, SpectrumFetched
\* and SpectrumFailed takes on the program counters.
SomeFetchEnds ==
    \E l \in AllLinks :
        /\ tpc[l] = "fetching"
        /\ \E end \in {"done", "raised"} : tpc' = [tpc EXCEPT ![l] = end]
        /\ pc' = pc

\* the entry point's own coroutine goes on once it can
EntryRuns ==
    \/ SeedDone \/ LoopEnter \/ LoopExit \/ Merge
    \/ MetadataGathered \/ SpectrumGathered

\* The asyncio event loop runs a coroutine that is ready; a fetch ends by its
\* timeout at the latest.  (The tasks of a round are finitely many and the
\* next round waits for all of them, so fairness per kind of step is
\* fairness per task.)
pcs == <<pc, tpc>>
Fairness == WF_pcs(SomeAcquire) /\ WF_pcs(SomeFetchEnds) /\ WF_pcs(EntryRuns)

FairSpec == InitFair /\ [][Next]_vars /\ Fairness

\* ------------------------------------ one call of _fetch_index_hrefs
\* The lines an index page is made of here: text, links with and without
\* the word species, the same link in both kinds of line, the page's own link.
IndexLineChoices ==
    {OtherLine,
     IndexLine("/cgi/fa", "C"), IndexLine("/cgi/fa", "species"),
     IndexLine("/cgi/g1", "species"), IndexLine("/cgi/g1", "CH4"),
     IndexLine("/cgi/g2", "species")}

RECURSIVE IndexPagesUpTo(_)
IndexPagesUpTo(n) ==
    IF n = 0 THEN {<<>>}
    ELSE LET shorter == IndexPagesUpTo(n - 1) IN
         shorter \cup {Append(p, l) : p \in shorter, l \in IndexLineChoices}

IndexHref == "/cgi/g1"

InitIndex ==
    /\ max_concurrent_requests \in 1..MaxK
    /\ entry = "_fetch_index_hrefs"
    /\ hrefs = {IndexHref}
    /\ web \in [hrefs -> IndexPagesUpTo(MaxIndexLines)]
    /\ pc = "call"
    /\ tpc = [l \in AllLinks |-> IF l \in hrefs THEN "waiting" ELSE "none"]
    /\ InitCommon

NextIndex ==
    \/ \E l \in AllLinks : Acquire(l)
    \/ \E l \in AllLinks : IndexFetched(l)
    \/ \E l \in AllLinks : IndexFailed(l)

SpecIndex == InitIndex /\ [][NextIndex]_vars

\* ================================================================== claims
Crawling == entry = "collect_all_formula_hrefs"

\* C1: whatever the capacity and the number of tasks scheduled, the fetches
\* in flight (between the semaphore's acquire and release) never exceed
\* max_concurrent_requests.
C1_InFlightAtMostK == Cardinality(InFlight) <= max_concurrent_requests

\* the gate is full while a further task waits for a permit
C1_Witness ==
    /\ Cardinality(InFlight) = max_concurrent_requests
    /\ \E l \in AllLinks : tpc[l] = "waiting"

\* C2: a link in seen_groups is never classified again: at the start of every
\* round groups_to_search contains no link of seen_groups.
C2_SettledNeverPending ==
    (Crawling /\ pc = "gather") => groups_to_search \cap seen_groups = {}

\* The index pages reachable from the seed through group links, and their leaves
PageOf(p) == ScanIndex(web[p], {}, {})
RECURSIVE ReachablePages(_)
ReachablePages(S) ==
    LET T == S \cup UNION {PageOf(p).group : p \in S} IN
    IF T = S THEN S ELSE ReachablePages(T)
ReachableLeaves == UNION {PageOf(p).formula : p \in ReachablePages({default_start_href})}

\* C3: on a finite link graph, with no fetch failing, the crawl ends with
\* groups_to_search empty, not through the iteration ceiling, and returns
\* exactly the leaves reachable from the seed.
C3_TerminatesWithAllLeaves ==
    (Crawling /\ pc = "done" /\ fetch_failed = {})
        => (~warned /\ groups_to_search = {} /\ returned = ReachableLeaves)

\* C4: a seed whose classification failed is placed in groups_to_search, to be
\* classified again in the next iteration.
C4_SeedFailureRetried ==
    (Crawling /\ pc = "loop" /\ iteration = 0 /\ default_start_href \in failed_hrefs)
        => default_start_href \in groups_to_search

\* A step that merges a round; the links whose task of that round failed
MergeStep == Crawling /\ pc = "gather" /\ pc' \in {"loop", "done"}
FailedIn(g) == tres[g].failed # {}

\* C5 (as amended): a group link that is not yet in seen_groups and whose
\* classification fails in a round stays out of seen_groups and is in
\* groups_to_search after that round, and unless the round was iteration 101 the
\* loop goes on and starts a task for every link of groups_to_search; a link
\* whose classification succeeds enters seen_groups in that round and the leaves
\* of its page are in formula_hrefs from then on and in the returned set; no link
\* enters seen_groups in a round in which it failed.
C5_Step ==
    /\ MergeStep =>
          \A g \in groups_to_search :
             /\ FailedIn(g) =>
                   /\ (g \in seen_groups' <=> g \in seen_groups)
                   /\ (g \notin seen_groups => g \in groups_to_search')
                   /\ (g \notin seen_groups /\ iteration <= MaxIterations => pc' = "loop")
             /\ ~FailedIn(g) =>
                   /\ g \in seen_groups'
                   /\ tres[g].formula \subseteq formula_hrefs'
    /\ (Crawling /\ pc = "loop" /\ pc' = "gather") =>
          \A g \in groups_to_search : tpc'[g] = "waiting"
    /\ Crawling => formula_hrefs \subseteq formula_hrefs'
    /\ (Crawling /\ pc # "done" /\ pc' = "done") => returned' = formula_hrefs'
C5_RetriedUnlessCeiling == [][C5_Step]_vars

\* a crawl that ended with a group link that failed, was retried and settled
C5_Witness ==
    /\ Crawling /\ pc = "done" /\ ~warned
    /\ \E g \in fetch_failed \cap seen_groups : PageOf(g).formula \subseteq returned

\* C5 (as stated), for a link never classified before: a group link whose
\* classification fails for the first time is classified again in the
\* following round.
C5_AlwaysRetried ==
    [][MergeStep =>
          \A g \in groups_to_search :
             (FailedIn(g) /\ g \notin fetch_failed /\ g \notin seen_groups)
                => (pc' = "loop" /\ g \in groups_to_search')]_vars

\* C6: the crawl runs at most 100 iterations of the loop.
C6_AtMost100Iterations == Crawling => iteration <= MaxIterations

\* C7: whatever the fetch raises and whatever the scan raises, no per-page
\* task and no entry point ends with an exception.
C7_NoErrorPropagates == pc # "raised" /\ \A l \in AllLinks : tpc[l] # "raised"

\* a batch returned although one fetch failed and the scan of another page raised
C7_Witness ==
    /\ entry = "collect_chemical_metadata" /\ pc = "done"
    /\ fetch_failed # {}
    /\ \E l \in hrefs \ fetch_failed : tres[l] = None

ParsesOk(l) == ScanDetail(NewMetadata(l), web[l], 1).raised = ""

\* C8: collect_chemical_metadata on N links of which M fail to fetch, the other
\* pages parsing without error, returns N-M records, one per fetched link.
C8_OneRecordPerFetchedLink ==
    (/\ entry = "collect_chemical_metadata" /\ pc = "done"
     /\ \A l \in hrefs \ fetch_failed : ParsesOk(l))
        => /\ Len(returned) = Cardinality(hrefs) - Cardinality(fetch_failed)
           /\ {returned[k].href : k \in 1..Len(returned)} = {Some(l) : l \in hrefs \ fetch_failed}

\* three links, one failed fetch, two records
C8_Witness ==
    /\ entry = "collect_chemical_metadata" /\ pc = "done"
    /\ Cardinality(hrefs) = 3 /\ Cardinality(fetch_failed) = 1
    /\ \A l \in hrefs \ fetch_failed : ParsesOk(l)
    /\ Len(returned) = 2

\* C9: for a page that was fetched, _fetch_chemical_metadata returns None only
\* because of the molecular-weight value: a page without the weight marker
\* always yields a record.
C9_NoneOnlyFromWeight ==
    \A l \in hrefs :
       (tpc[l] = "done" /\ l \notin fetch_failed /\ tres[l] = None)
          => <<WeightMarker>> \in Range(web[l])

\* The normalized references of the Index= lines of a page, in page order
IsRefLine(line) ==
    /\ IndexEq \in Range(line)
    /\ Apostrophe \in Range(line) \/ Quote \in Range(line)
    /\ line[1] # TitleOpen /\ CasText \notin Range(line)
RefOfLine(line) ==
    NormalizeJcamp(Split(line, IF Apostrophe \in Range(line) THEN Apostrophe ELSE Quote)[2])
RECURSIVE RefsOf(_)
RefsOf(page) ==
    IF page = <<>> THEN <<>>
    ELSE (IF IsRefLine(Head(page)) THEN <<RefOfLine(Head(page))>> ELSE <<>>)
         \o RefsOf(Tail(page))

\* C10: jcamp_hrefs of the returned record holds every normalized reference of
\* the page exactly once, in the order of the first occurrences.
C10_JcampDedupFirstSeen ==
    \A l \in hrefs :
       (tpc[l] = "done" /\ tres[l] # None) =>
          LET j == tres[l][1].jcamp_hrefs
              refs == RefsOf(web[l])
          IN  /\ Range(j) = Range(refs)
              /\ \A a, b \in 1..Len(j) :
                    a < b => j[a] # j[b] /\ IndexOf(refs, j[a]) < IndexOf(refs, j[b])

\* three Index= lines, two of which normalize to the same reference
C10_Witness ==
    \E l \in hrefs :
       /\ tpc[l] = "done" /\ tres[l] # None
       /\ Len(RefsOf(web[l])) = 3
       /\ Len(tres[l][1].jcamp_hrefs) = 2

\* ------------------------------------------------------------------- C11
\* the site of the scenario: the seed page lists 2 leaves and 1 group, the
\* page of that group lists 1 further leaf and no group; no fetch failed
C11_Scenario ==
    /\ Crawling
    /\ fetch_failed = {}
    /\ Cardinality(PageOf(default_start_href).formula) = 2
    /\ \E g \in GroupLinks :
          /\ PageOf(default_start_href).group = {g}
          /\ Cardinality(PageOf(g).formula \ PageOf(default_start_href).formula) = 1
          /\ Cardinality(PageOf(g).formula) = 1
          /\ PageOf(g).group = {}

\* C11 (as stated): in the scenario collect_all_formula_hrefs returns exactly
\* 3 leaf links and has finished after exactly 2 iterations of its loop.
C11_ThreeLeavesTwoIterations ==
    (C11_Scenario /\ pc = "done") => (Cardinality(returned) = 3 /\ iteration = 2)

\* C11 (amended): in the scenario collect_all_formula_hrefs returns exactly
\* 3 leaf links after the seed classification and exactly 1 iteration of its
\* loop (2 classification rounds in all), without the convergence report.
C11_ThreeLeavesOneIteration ==
    (C11_Scenario /\ pc = "done") =>
        (Cardinality(returned) = 3 /\ iteration = 1 /\ ~warned)

C11_Witness ==
    /\ C11_Scenario
    /\ pc = "done"
    /\ returned = {"/cgi/fa", "/cgi/fb", "/cgi/fc"}
    /\ seen_groups = {"/cgi/g1"}

\* ------------------------------------------------------------------- C12
\* the call of _fetch_index_hrefs has returned its three sets
IndexReturned(l) == entry = "_fetch_index_hrefs" /\ tpc[l] = "done"

\* the links a page lists both in a line with the word species and in a line
\* without it
ListedBothWays(page) ==
    {h \in AllLinks :
        \E i, j \in 1..Len(page) :
            /\ StartsWithLiCgi(page[i]) /\ page[i][3] = h
            /\ StartsWithLiCgi(page[j]) /\ page[j][3] = h
            /\ "species" \in Range(page[i])
            /\ "species" \notin Range(page[j])}

\* failed is non-empty exactly when the fetch failed, and then it is the set
\* of the input link alone and the two other sets are empty
FailedSetExact(l) ==
    /\ (tres[l].failed # {}) <=> (l \in fetch_failed)
    /\ (tres[l].failed # {}) =>
          (tres[l].failed = {l} /\ tres[l].formula = {} /\ tres[l].group = {})

\* C12 (as stated): for every page and fetch outcome the three sets returned
\* by _fetch_index_hrefs are pairwise disjoint, and failed is non-empty only
\* when the fetch failed, when it is {href} and the other two are empty.
C12_PairwiseDisjoint ==
    \A l \in AllLinks : IndexReturned(l) =>
        /\ tres[l].formula \cap tres[l].group = {}
        /\ tres[l].formula \cap tres[l].failed = {}
        /\ tres[l].group \cap tres[l].failed = {}
        /\ FailedSetExact(l)

\* C12 (amended): failed is disjoint from leaves and groups, and is non-empty
\* only when the fetch failed, when it is {href} and the other two are empty;
\* leaves and groups share exactly the links the page lists both in a species
\* line and in a line without that word (none on a page that lists no link
\* both ways).
C12_DisjointUnlessListedBothWays ==
    \A l \in AllLinks : IndexReturned(l) =>
        /\ tres[l].formula \cap tres[l].failed = {}
        /\ tres[l].group \cap tres[l].failed = {}
        /\ FailedSetExact(l)
        /\ (l \notin fetch_failed) =>
              (tres[l].formula \cap tres[l].group = ListedBothWays(web[l]))

\* a page listing a leaf and a group, no link both ways, was classified
C12_Witness ==
    \E l \in AllLinks :
        /\ IndexReturned(l)
        /\ tres[l].formula # {}
        /\ tres[l].group # {}
        /\ ListedBothWays(web[l]) = {}

\* ------------------------------------------------------------------- C13
\* C13: the permits taken from the semaphore are exactly those of the tasks
\* inside their with block; every exit of a task (return, failed fetch,
\* error of the scan) gives its permit back, so that whenever no task is
\* running, and when the entry point has returned, all
\* max_concurrent_requests permits are available.
C13_PermitsReturned ==
    /\ max_concurrent_requests - semaphore = Cardinality(InFlight)
    /\ (InFlight = {}) => (semaphore = max_concurrent_requests)
    /\ (pc = "done") => (InFlight = {} /\ semaphore = max_concurrent_requests)

\* every task of a batch is over, one by a failed fetch, one by an error of
\* the scan, one by a return; the permits are back
C13_Witness ==
    /\ entry = "collect_chemical_metadata"
    /\ Tasks # {} /\ AllSettled
    /\ \E l \in Tasks : l \in fetch_failed
    /\ \E l \in Tasks \ fetch_failed : tres[l] = None
    /\ \E l \in Tasks \ fetch_failed : tres[l] # None
    /\ semaphore = max_concurrent_requests

\* ------------------------------------------------------------------- C14
\* C14: with more tasks than permits in a round or a batch, and every fetch
\* ending (by its result, its error or its timeout), every task that waits
\* for a permit gets one and completes, and the round or batch is gathered:
\* no task waits forever, nothing deadlocks.
C14_WaitingTasksComplete ==
    /\ \A l \in AllLinks : (tpc[l] = "waiting") ~> (tpc[l] = "done")
    /\ (pc = "gather") ~> (pc # "gather")
    /\ <>(pc = "done")

\* more tasks than permits: the gate is full, a task has completed already
\* and another one still waits for its permit
C14_Witness ==
    /\ Cardinality(Tasks) > max_concurrent_requests
    /\ semaphore = 0
    /\ \E l \in Tasks : tpc[l] = "done"
    /\ \E l \in Tasks : tpc[l] = "waiting"

\* ------------------------------------------------------------------- C15
\* the crawler's sets: discovered leaves, settled, pending
CrawlSets == <<formula_hrefs, seen_groups, groups_to_search>>
\* the tasks of the round that have not completed
Unfinished == {l \in AllLinks : tpc[l] \in {"waiting", "fetching"}}
TaskStep == \E l \in AllLinks : tpc[l] \in {"waiting", "fetching"} /\ tpc'[l] # tpc[l]
TaskStarted == \E l \in AllLinks : tpc[l] # "waiting" /\ tpc'[l] = "waiting"

C15_Step ==
    Crawling =>
        /\ (CrawlSets' # CrawlSets) =>
              (Unfinished = {} /\ pc \in {"seed", "gather"} /\ pc' \in {"loop", "done"})
        /\ (TaskStarted \/ iteration' # iteration) =>
              (pc = "loop" /\ \A l \in AllLinks : tpc[l] = "none")
        /\ TaskStep => (CrawlSets' = CrawlSets /\ pc' = pc /\ iteration' = iteration)

\* C15: in collect_all_formula_hrefs the crawler's sets are updated, and the
\* tasks of the next iteration are started, only when every classification
\* task of the current iteration has completed (with a result or a failure);
\* a step of a per-page task never changes those sets.
C15_RoundBarrier == [][C15_Step]_vars

\* a task of the round has returned leaves that are not merged yet while
\* another task of the same round has not completed
C15_Witness ==
    /\ Crawling /\ pc = "gather"
    /\ \E l \in Tasks : tpc[l] = "done" /\ ~(tres[l].formula \subseteq formula_hrefs)
    /\ Unfinished # {}

\* ------------------------------------------------------------------- C16
\* What a round yields, computed from the site, the sets before the round and
\* the set F of the links of the round whose fetch failed, and from nothing
\* else: not from the order in which the tasks took the semaphore or ended.
RoundLeaves(F) == formula_hrefs \cup UNION {PageOf(g).formula : g \in groups_to_search \ F}
RoundSettled(F) == seen_groups \cup (groups_to_search \ F)
RoundPending(F) ==
    UNION {PageOf(g).group : g \in groups_to_search \ F} \cup (F \ RoundSettled(F))

C16_Step ==
    /\ MergeStep =>
          /\ formula_hrefs' = RoundLeaves(FailedTasks)
          /\ seen_groups' = RoundSettled(FailedTasks)
          /\ groups_to_search' = RoundPending(FailedTasks)
          /\ (pc' = "done") => (returned' = RoundLeaves(FailedTasks))
    /\ (Crawling /\ pc = "seed" /\ pc' = "loop") =>
          /\ formula_hrefs' =
                (IF FailedTasks = {} THEN PageOf(default_start_href).formula ELSE {})
          /\ groups_to_search' =
                (IF FailedTasks = {} THEN PageOf(default_start_href).group ELSE {})
          /\ seen_groups' = {}
    /\ (Crawling /\ pc = "loop" /\ pc' = "done") => (returned' = formula_hrefs)

\* C16: for a fixed site and a fixed outcome of every fetch, the settled and
\* pending sets after every round and the returned set are the same whatever
\* the order in which the tasks of a round take the semaphore and complete:
\* in every interleaving each round yields the value of one function of the
\* sets before the round and of the outcomes of its fetches.
C16_OrderIndependent == [][C16_Step]_vars

\* both tasks of a round of two have completed, one by a failed fetch
C16_Witness ==
    /\ Crawling /\ pc = "gather"
    /\ Cardinality(Tasks) = 2 /\ AllSettled
    /\ Cardinality(FailedTasks) = 1

\* ------------------------------------------------------------------- C17
\* C17: the 'Unable to fetch formula hrefs for groups' error is logged only
\* when the ceiling is reached with groups_to_search non-empty; a crawl whose
\* groups_to_search is empty at the end of an iteration ends without it,
\* whatever the iteration.
C17_WarningOnlyWithPending ==
    (Crawling /\ warned) => (CeilingHit(iteration) /\ groups_to_search # {})

\* ------------------------------------------------------------------- C18
\* the group links discovered in any round: those listed by the seed page
\* and by the pages classified successfully
Discovered ==
    PageOf(default_start_href).group \cup UNION {PageOf(g).group : g \in seen_groups}

\* the loop was left because groups_to_search was empty, the seed having
\* been classified
ExitedEmpty ==
    Crawling /\ pc = "done" /\ ~warned /\ default_start_href \notin fetch_failed

\* C18: when collect_all_formula_hrefs leaves its loop because
\* groups_to_search is empty (not through the ceiling), after a successful
\* seed classification, every group link discovered in any round is in
\* seen_groups and the leaves of its page, and those of the seed page, are in
\* the returned set: no discovered group link is dropped.
C18_NoGroupDropped ==
    ExitedEmpty =>
        /\ groups_to_search = {}
        /\ Discovered \subseteq seen_groups
        /\ \A g \in Discovered : PageOf(g).formula \subseteq returned
        /\ PageOf(default_start_href).formula \subseteq returned

\* the loop was left with both groups settled although a fetch of a group
\* had failed in some round
C18_Witness ==
    /\ ExitedEmpty
    /\ Discovered = GroupLinks
    /\ seen_groups = GroupLinks
    /\ fetch_failed \cap GroupLinks # {}

====
